---- MODULE Spec2Model ----
(***************************************************************************)
(* Model of SimpleDB (src/simple_db.py): the document table el_db, the     *)
(* inverted index prop_db, and the operations that maintain them.          *)
(*                                                                         *)
(* Every method is a state transformer over a record                       *)
(*   [el_db, prop_db, fname, disk, aliased, excluded, uuid_next, raised,   *)
(*    ret]                                                                 *)
(* so that a method calling another (add -> set_prop, replace -> remove,   *)
(* add) is the composition the code performs.  `raised` is the exception   *)
(* that leaves the call ("none" when the call returns), `ret` the value it *)
(* returns.  An action takes one public call to completion.                *)
(*                                                                         *)
(* Spec is the store under its in-memory methods; SpecPersist adds save    *)
(* and load, SpecCaller adds a caller that changes the objects it passed   *)
(* to or was handed by the store.                                          *)
(*                                                                         *)
(* Modelled under an interpreter where collections.Hashable exists         *)
(* (CPython 2.6 - 3.9), which the module needs to import its own names.    *)
(***************************************************************************)
EXTENDS Integers, Sequences, FiniteSets, TLC

\* ---------------------------------------------------------------- bounds
MaxUuid   == 2      \* number of identifiers uuid4() hands out
NumProps  == 2      \* distinct property names
MaxVal    == 2      \* distinct hashable values
MaxDocLen == 2      \* properties in a document passed to add/replace
MaxIdIter == 2      \* length of the identifier sequence passed to access
MaxCalls  == 3      \* public calls made on the store in one run

\* ------------------------------------------------------------ value space
None          == 0                  \* Python None (id_ default, no return value)
UnhashableVal == 0                  \* a list value such as [1,2,3]
Ids           == 1..MaxUuid
Props         == 1..NumProps
HashableVals  == 1..MaxVal
Vals          == {UnhashableVal} \cup HashableVals
Tests         == {"eq", "ne", "ge", "gt", "le", "lt", "rx"}

\* file names a caller may pass to save/load, and the value of self.fname
\* while no file has been loaded (Python None)
Files         == {"absent", "no_el_db", "no_prop_db", "complete"}
NoFname       == "None"

\* isinstance(x, collections.Hashable); property names are dict keys and
\* therefore always hashable, so only the value decides
Hashable(val) == val # UnhashableVal

\* ------------------------------------------------------ dict operations
EmptyMap == [x \in {} |-> None]

Put(f, k, v) == [x \in (DOMAIN f) \cup {k} |-> IF x = k THEN v ELSE f[x]]

Del(f, k) == [x \in (DOMAIN f) \ {k} |-> f[x]]

\* documents handed to add/replace: the items of a dict in iteration order,
\* i.e. a sequence of <<prop, val>> with pairwise distinct property names
Items == Props \X Vals

DocSeqs ==
    UNION { { s \in [1..n -> Items] :
                \A i, j \in 1..n : i # j => s[i][1] # s[j][1] }
            : n \in 0..MaxDocLen }

\* the dict whose items() is the sequence el
DocOf(el) ==
    [p \in { el[i][1] : i \in 1..Len(el) } |->
        (CHOOSE i \in 1..Len(el) : el[i][1] = p) ]

AsDict(el) == [p \in DOMAIN DocOf(el) |-> el[DocOf(el)[p]][2]]

\* ------------------------------------------------------------------ state
VARIABLES
    el_db,       \* id -> document (property -> value)
    prop_db,     \* property -> value -> set of ids
    fname,       \* self.fname: the file last loaded, NoFname if none
    disk,        \* the file system: file name -> what pickle.load finds
    aliased,     \* ids whose stored dict is the very object a caller passed in
    excluded,    \* history: <<id, prop>> whose latest assignment was excluded
    uuid_next,   \* number of identifiers uuid4() has produced so far
    ncalls,      \* number of public calls made so far
    call,        \* the public call that was last made, with its arguments
    raised,      \* exception that left the last call, "none" if it returned
    ret          \* value the last call returned

vars == <<el_db, prop_db, fname, disk, aliased, excluded, uuid_next, ncalls,
         call, raised, ret>>

\* what a call hands back: None, an integer or identifier, a set of
\* identifiers, or a list of documents.  A returned object is either new
\* or one the store keeps: doc_of[k] is the id whose stored dict the k-th
\* returned document is (None for a new dict), set_of the <<prop, val>>
\* whose identifier set in prop_db the returned set is (empty for a new set)
NoValue == [kind |-> "None", int |-> None, ids |-> {}, docs |-> <<>>,
            doc_of |-> <<>>, set_of |-> {}]

\* a call is recorded by its method name, the id_/prop it was aimed at and,
\* for the two queries, its access flag
Called(name, id_, prop) ==
    [name |-> name, id_ |-> id_, prop |-> prop, access |-> FALSE]

\* what open() + pickle.load find under a file name: whether the file can
\* be opened, which keys the unpickled container has, and the two tables
Container(keys) ==
    [exists |-> TRUE, keys |-> keys, el_db |-> EmptyMap, prop_db |-> EmptyMap]

NoFile == [Container({}) EXCEPT !.exists = FALSE]

\* the files present when the store is constructed: none under "absent",
\* and three containers pickled from an empty store, two of them lacking
\* one of the keys load reads
Disk0 ==
    [f \in Files |->
        CASE f = "absent"     -> NoFile
          [] f = "no_el_db"   -> Container({"prop_db"})
          [] f = "no_prop_db" -> Container({"el_db"})
          [] f = "complete"   -> Container({"el_db", "prop_db"})]

Init ==
    /\ el_db = EmptyMap
    /\ prop_db = EmptyMap
    /\ fname = NoFname
    /\ disk = Disk0
    /\ aliased = {}
    /\ excluded = {}
    /\ uuid_next = 0
    /\ ncalls = 0
    /\ call = Called("init", None, None)
    /\ raised = "none"
    /\ ret = NoValue

\* the store as a method finds it (`self`); an action binds it once, as a
\* value, before the method runs
Self ==
    [el_db |-> el_db, prop_db |-> prop_db, fname |-> fname, disk |-> disk,
     aliased |-> aliased, excluded |-> excluded, uuid_next |-> uuid_next,
     raised |-> "none", ret |-> NoValue]

Raise(db, exc) == [db EXCEPT !.raised = exc, !.ret = NoValue]

ReturnNone(db) == [db EXCEPT !.raised = "none", !.ret = NoValue]

Return(db, v) ==
    [db EXCEPT !.raised = "none",
               !.ret = [NoValue EXCEPT !.kind = "int", !.int = v]]

\* a set built by the call (matches = set())
ReturnIds(db, S) ==
    [db EXCEPT !.raised = "none",
               !.ret = [NoValue EXCEPT !.kind = "set", !.ids = S]]

\* a list of dicts built by the call (el.copy())
ReturnDocs(db, docs) ==
    [db EXCEPT !.raised = "none",
               !.ret = [NoValue EXCEPT
                           !.kind = "list", !.docs = docs,
                           !.doc_of = [k \in 1..Len(docs) |-> None]]]

\* ----------------------------------------------------------------- size
\* SimpleDB.size: len(self.el_db.keys())
size(db) == Return(db, Cardinality(DOMAIN db.el_db))

\* --------------------------------------------------------------- access
\* variant that appends the stored dict itself (no .copy())
access_sharing(db, id_iter) ==
    IF \E k \in 1..Len(id_iter) : id_iter[k] \notin DOMAIN db.el_db
    THEN Raise(db, "AttributeError")
    ELSE LET kept == SelectSeq(id_iter,
                         LAMBDA i : db.el_db[i] # EmptyMap)
         IN  [ReturnDocs(db, [k \in 1..Len(kept) |-> db.el_db[kept[k]]])
                 EXCEPT !.ret.doc_of = kept]

\* SimpleDB.access: self.el_db.get(id_) is None for an absent id_, and
\* None.copy() raises AttributeError; `if el:` drops an empty copy
access(db, id_iter) ==
    IF \E k \in 1..Len(id_iter) : id_iter[k] \notin DOMAIN db.el_db
    THEN Raise(db, "AttributeError")
    ELSE LET kept == SelectSeq(id_iter,
                         LAMBDA i : db.el_db[i] # EmptyMap)
         IN  ReturnDocs(db, [k \in 1..Len(kept) |-> db.el_db[kept[k]]])

\* ------------------------------------------------------------- set_prop
\* variant that takes id_ out of the other value sets of prop before it
\* adds the new entry
set_prop_retracting(db, id_, prop, val, exclude) ==
    IF id_ \notin DOMAIN db.el_db
    THEN Raise(db, "LookupError")
    ELSE IF ~Hashable(val)
    THEN Raise(db, "TypeError")
    ELSE LET stored == [db EXCEPT
                 !.el_db = Put(@, id_, Put(@[id_], prop, val)),
                 !.excluded = IF exclude THEN @ \cup {<<id_, prop>>}
                                         ELSE @ \ {<<id_, prop>>}]
             old == IF prop \in DOMAIN db.prop_db
                    THEN db.prop_db[prop] ELSE EmptyMap
             by_val == [v \in DOMAIN old |-> old[v] \ {id_}]
             id_set == IF val \in DOMAIN by_val THEN by_val[val] ELSE {}
         IN  IF exclude
             THEN ReturnNone(stored)
             ELSE ReturnNone([stored EXCEPT
                      !.prop_db = Put(@, prop,
                                      Put(by_val, val, id_set \cup {id_}))])

\* SimpleDB.set_prop: lookup check, hashability check (made whatever
\* `exclude` is), assignment into the stored document, then the index entry
set_prop(db, id_, prop, val, exclude) ==
    IF id_ \notin DOMAIN db.el_db
    THEN Raise(db, "LookupError")
    ELSE IF ~Hashable(val)
    THEN Raise(db, "TypeError")
    ELSE LET stored == [db EXCEPT
                 !.el_db = Put(@, id_, Put(@[id_], prop, val)),
                 !.excluded = IF exclude THEN @ \cup {<<id_, prop>>}
                                         ELSE @ \ {<<id_, prop>>}]
             by_val == IF prop \in DOMAIN db.prop_db
                       THEN db.prop_db[prop] ELSE EmptyMap
             id_set == IF val \in DOMAIN by_val THEN by_val[val] ELSE {}
         IN  IF exclude
             THEN ReturnNone(stored)
             ELSE ReturnNone([stored EXCEPT
                      !.prop_db = Put(@, prop,
                                      Put(by_val, val, id_set \cup {id_}))])

\* ------------------------------------------------------------------ add
\* the loop of lines 103-106: set_prop for each item in iteration order;
\* the first exception leaves add with everything done so far in place
RECURSIVE add_loop(_, _, _, _, _)
add_loop(db, id_, el, i, exclude) ==
    IF i > Len(el) THEN db
    ELSE LET step == set_prop(db, id_, el[i][1], el[i][2],
                              el[i][1] \in exclude)
         IN  IF step.raised # "none" THEN step
             ELSE add_loop(step, id_, el, i + 1, exclude)

\* the validation loop of lines 86-94: `valid` is overwritten on every
\* iteration and tested after the loop, so the last item alone decides;
\* `exclude` is not consulted
add_valid(el) ==
    IF Len(el) = 0 THEN TRUE ELSE Hashable(el[Len(el)][2])

\* variant whose identifier generator repeats itself: from the second
\* generated identifier on it hands out the previous one again
add_reusing_uuid(db, el, exclude, id_) ==
    IF ~add_valid(el)
    THEN Raise(db, "TypeError")
    ELSE LET new_id == IF id_ # None THEN id_
                       ELSE IF db.uuid_next = 0 THEN 1 ELSE db.uuid_next
             stored == [db EXCEPT
                 !.uuid_next = IF id_ = None THEN @ + 1 ELSE @,
                 !.el_db = Put(@, new_id, AsDict(el)),
                 !.aliased = @ \cup {new_id},
                 !.excluded = { x \in @ : x[1] # new_id } \cup
                     { <<new_id, p>> : p \in (DOMAIN AsDict(el)) \cap exclude }]
             indexed == add_loop(stored, new_id, el, 1, exclude)
         IN  IF indexed.raised # "none" THEN indexed
             ELSE Return(indexed, new_id)

\* SimpleDB.add: el is the document's items in iteration order, id_ = None
\* asks for a generated identifier (uuid4: never seen before).  Line 101
\* stores the caller's dict itself (self.el_db[id_] = el), not a copy.
add(db, el, exclude, id_) ==
    IF ~add_valid(el)
    THEN Raise(db, "TypeError")
    ELSE LET new_id == IF id_ = None THEN db.uuid_next + 1 ELSE id_
             stored == [db EXCEPT
                 !.uuid_next = IF id_ = None THEN @ + 1 ELSE @,
                 !.el_db = Put(@, new_id, AsDict(el)),
                 !.aliased = @ \cup {new_id},
                 !.excluded = { x \in @ : x[1] # new_id } \cup
                     { <<new_id, p>> : p \in (DOMAIN AsDict(el)) \cap exclude }]
             indexed == add_loop(stored, new_id, el, 1, exclude)
         IN  IF indexed.raised # "none" THEN indexed
             ELSE Return(indexed, new_id)

\* ----------------------------------------------------------- comparators
\* db_queries.eq .. lt on the (integer) indexed values
Compare(test, _val, val) ==
    CASE test = "eq" -> _val = val
      [] test = "ne" -> _val # val
      [] test = "ge" -> _val >= val
      [] test = "gt" -> _val > val
      [] test = "le" -> _val <= val
      [] test = "lt" -> _val < val

\* db_queries.rx hands the stored value to re.match, which raises
\* TypeError for a value that is not a string; every other test returns
TestRaises(test) == test = "rx"

\* ---------------------------------------------------------------- query
\* variant that hands out the identifier set of prop_db itself when a
\* single value passes the test (matches = prop_db[_val])
query_sharing(db, prop, test, val, acc, order) ==
    LET by_val == IF prop \in DOMAIN db.prop_db
                  THEN db.prop_db[prop] ELSE EmptyMap
        passing == { v \in DOMAIN by_val : Compare(test, v, val) }
        matches == UNION { by_val[_val] : _val \in passing }
    IN  IF DOMAIN by_val # {} /\ TestRaises(test)
        THEN Raise(db, "TypeError")
        ELSE IF acc
        THEN access(db, SelectSeq(order, LAMBDA i : i \in matches))
        ELSE IF Cardinality(passing) = 1
        THEN [ReturnIds(db, matches)
                 EXCEPT !.ret.set_of = { <<prop, v>> : v \in passing }]
        ELSE ReturnIds(db, matches)

\* SimpleDB.query: union of the id sets of the values passing the test.
\* With access=True the matches are resolved by access(), which walks the
\* set in an order the caller does not control: `order` lists all ids in
\* the order in which set iteration would yield them.
query(db, prop, test, val, acc, order) ==
    LET by_val == IF prop \in DOMAIN db.prop_db
                  THEN db.prop_db[prop] ELSE EmptyMap
        matches == UNION { by_val[_val] :
                       _val \in { v \in DOMAIN by_val : Compare(test, v, val) } }
    IN  IF DOMAIN by_val # {} /\ TestRaises(test)
        THEN Raise(db, "TypeError")
        ELSE IF acc
        THEN access(db, SelectSeq(order, LAMBDA i : i \in matches))
        ELSE ReturnIds(db, matches)

\* ----------------------------------------------------------- query_prop
\* SimpleDB.query_prop: matches.update(self.prop_db[prop].values()) adds
\* each VALUE of the dict, i.e. each id set, as an element of `matches`;
\* a set is unhashable, so the first one raises TypeError
query_prop(db, prop, acc) ==
    IF prop \in DOMAIN db.prop_db /\ DOMAIN db.prop_db[prop] # {}
    THEN Raise(db, "TypeError")
    ELSE IF acc THEN access(db, <<>>)
    ELSE ReturnIds(db, {})

\* --------------------------------------------------------------- remove
\* variant that lets an absent identifier pass (dict.pop(id_, None) style)
remove_ignoring_missing(db, id_) ==
    IF id_ \in DOMAIN db.el_db
    THEN IF db.el_db[id_] # EmptyMap
         THEN Raise(db, "AttributeError")
         ELSE ReturnNone([db EXCEPT
                  !.el_db = Del(@, id_),
                  !.aliased = @ \ {id_},
                  !.excluded = { x \in @ : x[1] # id_ }])
    ELSE ReturnNone(db)

\* SimpleDB.remove: the loop body calls self.del_prop, which SimpleDB does
\* not define, so the first property of the document raises AttributeError
\* before anything is changed; only an empty document reaches the del
remove(db, id_) ==
    IF id_ \in DOMAIN db.el_db
    THEN IF db.el_db[id_] # EmptyMap
         THEN Raise(db, "AttributeError")
         ELSE ReturnNone([db EXCEPT
                  !.el_db = Del(@, id_),
                  !.aliased = @ \ {id_},
                  !.excluded = { x \in @ : x[1] # id_ }])
    ELSE Raise(db, "LookupError")

\* -------------------------------------------------------------- replace
\* SimpleDB.replace: remove, then add under the same identifier
replace(db, id_, el, exclude) ==
    LET removed == remove(db, id_)
    IN  IF removed.raised # "none" THEN removed
        ELSE LET added == add(removed, el, exclude, id_)
             IN  IF added.raised # "none" THEN added
                 ELSE ReturnNone(added)

\* ---------------------------------------------------------- remove_prop
\* variant that reads the value before deleting it and discards id_ from
\* its identifier set, but deletes neither an emptied set nor an emptied
\* value map
remove_prop_discarding(db, id_, prop) ==
    IF id_ \notin DOMAIN db.el_db
    THEN Raise(db, "LookupError")
    ELSE IF prop \notin DOMAIN db.el_db[id_]
    THEN Raise(db, "KeyError")
    ELSE LET val == db.el_db[id_][prop]
             deleted == [db EXCEPT
                 !.el_db = Put(@, id_, Del(@[id_], prop)),
                 !.excluded = @ \ {<<id_, prop>>}]
         IN  IF prop \in DOMAIN db.prop_db /\ val \in DOMAIN db.prop_db[prop]
             THEN ReturnNone([deleted EXCEPT
                      !.prop_db = Put(@, prop,
                          Put(@[prop], val, @[prop][val] \ {id_}))])
             ELSE ReturnNone(deleted)

\* SimpleDB.remove_prop: the property is deleted from the document first
\* (line 240); query_prop then raises when prop is indexed at all, and an
\* id found in its result would read the deleted property (line 243,
\* KeyError), so lines 245-251 never run
remove_prop(db, id_, prop) ==
    IF id_ \notin DOMAIN db.el_db
    THEN Raise(db, "LookupError")
    ELSE IF prop \notin DOMAIN db.el_db[id_]
    THEN Raise(db, "KeyError")
    ELSE LET deleted == [db EXCEPT
                 !.el_db = Put(@, id_, Del(@[id_], prop)),
                 !.excluded = @ \ {<<id_, prop>>}]
             found == query_prop(deleted, prop, FALSE)
         IN  IF found.raised # "none" THEN found
             ELSE IF id_ \in found.ret.ids THEN Raise(deleted, "KeyError")
             ELSE ReturnNone(deleted)

\* ---------------------------------------------------------------- reset
reset(db) == ReturnNone([db EXCEPT !.el_db = EmptyMap, !.prop_db = EmptyMap,
                                   !.aliased = {}, !.excluded = {}])

\* ----------------------------------------------------------------- save
\* SimpleDB.save(self, *args): `args` is a tuple, and line 267 calls
\* args.get(1); a tuple has no attribute `get`, so every call leaves with
\* AttributeError before a file name is chosen or a file is opened
save(db, dest) == Raise(db, "AttributeError")

\* ----------------------------------------------------------------- load
\* SimpleDB.load: the assignments of lines 290-292 run one after the other
\* inside the try; a container without "prop_db" raises KeyError after
\* self.el_db has already been replaced.  The tables of a file carry no
\* record of which assignments were excluded.
load(db, name) ==
    LET _in == db.disk[name]
    IN  IF ~_in.exists
        THEN Raise(db, "IOError")
        ELSE IF "el_db" \notin _in.keys
        THEN Raise(db, "KeyError")
        ELSE LET got_el == [db EXCEPT !.el_db = _in.el_db, !.aliased = {},
                                      !.excluded = {}]
             IN  IF "prop_db" \notin _in.keys
                 THEN Raise(got_el, "KeyError")
                 ELSE ReturnNone([got_el EXCEPT !.prop_db = _in.prop_db,
                                                !.fname = name])

\* -------------------------------------------------------------- actions
\* the call completes: the store and the outcome become what the method left
Completes(c, db) ==
    /\ ncalls < MaxCalls
    /\ ncalls' = ncalls + 1
    /\ call' = c
    /\ el_db' = db.el_db
    /\ prop_db' = db.prop_db
    /\ fname' = db.fname
    /\ disk' = db.disk
    /\ aliased' = db.aliased
    /\ excluded' = db.excluded
    /\ uuid_next' = db.uuid_next
    /\ raised' = db.raised
    /\ ret' = db.ret

Size ==
    \E db \in {Self} : Completes(Called("size", None, None), size(db))

IdIters == UNION { [1..n -> Ids] : n \in 0..MaxIdIter }

AccessCall(id_iter) ==
    \E db \in {Self} :
        Completes(Called("access", None, None), access(db, id_iter))

Access ==
    \E id_iter \in IdIters : AccessCall(id_iter)

\* the arguments of add and replace: a document and the names to exclude
\* (names that are not in the document change nothing and are left out)
AddArgs ==
    { a \in DocSeqs \X (SUBSET Props) : a[2] \subseteq DOMAIN AsDict(a[1]) }

\* add with a generated identifier needs uuid4 to have one left within the
\* bound; a caller-supplied identifier is one the store handed out before
AddCall(el, exclude, id_) ==
    /\ id_ = None => uuid_next < MaxUuid
    /\ id_ # None => id_ <= uuid_next
    /\ \E db \in {Self} :
          Completes(Called("add", id_, None), add(db, el, exclude, id_))

Add ==
    \E a \in AddArgs, id_ \in {None} \cup Ids : AddCall(a[1], a[2], id_)

SetPropCall(id_, prop, val, exclude) ==
    \E db \in {Self} :
        Completes(Called("set_prop", id_, prop),
                  set_prop(db, id_, prop, val, exclude))

SetProp ==
    \E id_ \in Ids, prop \in Props, val \in Vals, exclude \in BOOLEAN :
        SetPropCall(id_, prop, val, exclude)

RemovePropCall(id_, prop) ==
    \E db \in {Self} :
        Completes(Called("remove_prop", id_, prop), remove_prop(db, id_, prop))

RemoveProp ==
    \E id_ \in Ids, prop \in Props : RemovePropCall(id_, prop)

RemoveCall(id_) ==
    \E db \in {Self} :
        Completes(Called("remove", id_, None), remove(db, id_))

Remove ==
    \E id_ \in Ids : RemoveCall(id_)

ReplaceCall(id_, el, exclude) ==
    \E db \in {Self} :
        Completes(Called("replace", id_, None), replace(db, id_, el, exclude))

Replace ==
    \E id_ \in Ids, a \in AddArgs : ReplaceCall(id_, a[1], a[2])

\* an enumeration of a set of ids, in the order set iteration yields them
Orders(S) ==
    { o \in [1..Cardinality(S) -> S] : \A i, j \in DOMAIN o : i # j => o[i] # o[j] }

QueryCall(prop, test, val, acc, order) ==
    \E db \in {Self} :
        Completes([Called("query", None, prop) EXCEPT !.access = acc],
                  query(db, prop, test, val, acc, order))

Query ==
    \E prop \in Props, test \in Tests, val \in HashableVals, acc \in BOOLEAN :
        \E order \in Orders(Ids) : QueryCall(prop, test, val, acc, order)

QueryPropCall(prop, acc) ==
    \E db \in {Self} :
        Completes([Called("query_prop", None, prop) EXCEPT !.access = acc],
                  query_prop(db, prop, acc))

QueryProp ==
    \E prop \in Props, acc \in BOOLEAN : QueryPropCall(prop, acc)

Reset ==
    \E db \in {Self} : Completes(Called("reset", None, None), reset(db))

Next ==
    \/ Size
    \/ Access
    \/ Query
    \/ QueryProp
    \/ Remove
    \/ RemoveProp
    \/ SetProp
    \/ Replace
    \/ Add
    \/ Reset

Spec == Init /\ [][Next]_vars

\* ------------------------------------------------- the caller's objects
\* Besides calling methods, the code that uses the store can change the
\* objects it holds: the dicts it passed to add/replace (a new dict for
\* every call) and the lists and sets the store returned to it.

\* d[prop] = val, or del d[prop], on a dict d
Mutations == ({"set"} \X Props \X Vals) \cup ({"del"} \X Props \X {None})

CanMutate(doc, m) == m[1] = "del" => m[2] \in DOMAIN doc

Mutate(doc, m) ==
    IF m[1] = "set" THEN Put(doc, m[2], m[3]) ELSE Del(doc, m[2])

\* s.add(i) or s.discard(i) on a set s
SetMutations == {"add", "discard"} \X Ids

SetMutate(S, m) == IF m[1] = "add" THEN S \cup {m[2]} ELSE S \ {m[2]}

\* the store and the last returned value as they are between two calls
Between == [Self EXCEPT !.raised = raised, !.ret = ret]

\* a change of the dict object stored under id_ shows in el_db[id_] and in
\* every returned document that is this object
MutateStored(db, id_, m) ==
    [db EXCEPT
        !.el_db = Put(@, id_, Mutate(@[id_], m)),
        !.ret.docs = [k \in DOMAIN @ |->
                        IF db.ret.doc_of[k] = id_ THEN Mutate(@[k], m)
                                                  ELSE @[k]]]

\* the caller changes a dict it passed to add or replace earlier
CallerMutatesPassedCall(id_, m) ==
    /\ id_ \in aliased
    /\ CanMutate(el_db[id_], m)
    /\ \E db \in {Between} :
          Completes(Called("caller changes passed dict", id_, m[2]),
                    MutateStored(db, id_, m))

CallerMutatesPassed ==
    \E id_ \in Ids, m \in Mutations : CallerMutatesPassedCall(id_, m)

\* the caller changes the k-th document of the list it was returned
CallerMutatesReturnedDocCall(k, m) ==
    /\ ret.kind = "list"
    /\ k \in 1..Len(ret.docs)
    /\ CanMutate(ret.docs[k], m)
    /\ \E db \in {Between} :
          Completes([call EXCEPT !.name = "caller changes returned dict"],
                    IF db.ret.doc_of[k] # None
                    THEN MutateStored(db, db.ret.doc_of[k], m)
                    ELSE [db EXCEPT !.ret.docs[k] = Mutate(@, m)])

CallerMutatesReturnedDoc ==
    \E k \in 1..Len(ret.docs), m \in Mutations :
        CallerMutatesReturnedDocCall(k, m)

\* the caller changes the set it was returned
CallerMutatesReturnedSetCall(m) ==
    /\ ret.kind = "set"
    /\ \E db \in {Between} :
          Completes([call EXCEPT !.name = "caller changes returned set"],
                    [db EXCEPT
                        !.ret.ids = SetMutate(@, m),
                        !.prop_db = [p \in DOMAIN @ |-> [v \in DOMAIN @[p] |->
                            IF <<p, v>> \in db.ret.set_of
                            THEN SetMutate(@[p][v], m) ELSE @[p][v]]]])

CallerMutatesReturnedSet ==
    \E m \in SetMutations : CallerMutatesReturnedSetCall(m)

NextCaller ==
    \/ Next
    \/ CallerMutatesPassed
    \/ CallerMutatesReturnedDoc
    \/ CallerMutatesReturnedSet

\* the store together with a caller that changes the objects it holds
SpecCaller == Init /\ [][NextCaller]_vars

\* ---------------------------------------------------------- persistence
\* save with a destination, or with none (dest = NoFname)
SaveCall(dest) ==
    \E db \in {Self} : Completes(Called("save", None, None), save(db, dest))

Save ==
    \E dest \in {NoFname} \cup Files : SaveCall(dest)

LoadCall(name) ==
    \E db \in {Self} : Completes(Called("load", None, None), load(db, name))

Load ==
    \E name \in Files : LoadCall(name)

NextPersist ==
    \/ Next
    \/ Save
    \/ Load

\* the store used together with its persistence calls
SpecPersist == Init /\ [][NextPersist]_vars

\* ------------------------------------------------------------ type sanity
TypeOK ==
    /\ DOMAIN el_db \subseteq Ids
    /\ \A i \in DOMAIN el_db :
          /\ DOMAIN el_db[i] \subseteq Props
          /\ \A p \in DOMAIN el_db[i] : el_db[i][p] \in Vals
    /\ DOMAIN prop_db \subseteq Props
    /\ \A p \in DOMAIN prop_db :
          /\ DOMAIN prop_db[p] \subseteq HashableVals
          /\ \A v \in DOMAIN prop_db[p] : prop_db[p][v] \subseteq Ids
    /\ excluded \subseteq Ids \X Props
    /\ uuid_next \in 0..MaxUuid
    /\ ncalls \in 0..MaxCalls
    /\ fname \in {NoFname} \cup Files
    /\ DOMAIN disk = Files
    /\ aliased \subseteq DOMAIN el_db

\* ================================================================ claims
\* what the claims speak of
HasProp(i, p)  == i \in DOMAIN el_db /\ p \in DOMAIN el_db[i]

IdsAt(p, v)    == IF p \in DOMAIN prop_db /\ v \in DOMAIN prop_db[p]
                  THEN prop_db[p][v] ELSE {}

IdsAtNext(p, v) == IF p \in DOMAIN prop_db' /\ v \in DOMAIN prop_db'[p]
                   THEN prop_db'[p][v] ELSE {}

IndexedIds     == UNION { IdsAt(p, v) : p \in Props, v \in Vals }

\* the (property, value) entries of the index that hold identifier i
EntriesOf(i)     == { e \in Props \X Vals : i \in IdsAt(e[1], e[2]) }

EntriesOfNext(i) == { e \in Props \X Vals : i \in IdsAtNext(e[1], e[2]) }

AddIds == {None} \cup Ids

\* C1: index soundness -- in every reachable state, every identifier held
\* in prop_db[P][V] names a stored document whose property P has value V.
C1_IndexSound ==
    \A p \in DOMAIN prop_db : \A v \in DOMAIN prop_db[p] :
        \A i \in prop_db[p][v] : HasProp(i, p) /\ el_db[i][p] = v

\* C2: index completeness -- in every reachable state, every property of a
\* stored document whose latest assignment was not excluded is indexed
\* under its current value.
C2_IndexComplete ==
    \A i \in DOMAIN el_db : \A p \in DOMAIN el_db[i] :
        <<i, p>> \notin excluded => i \in IdsAt(p, el_db[i][p])

\* a document with a non-excluded property whose value is unhashable
HasUnhashableIndexed(el, exclude) ==
    \E k \in 1..Len(el) : el[k][1] \notin exclude /\ ~Hashable(el[k][2])

\* C3: an add of a document with a non-excluded unhashable property,
\* wherever that property stands in the document, raises the validation
\* error and leaves el_db and prop_db as they were.
C3_RejectedAddLeavesNoState ==
    [][\A a \in AddArgs, id_ \in AddIds :
          (HasUnhashableIndexed(a[1], a[2]) /\ AddCall(a[1], a[2], id_))
          => /\ raised' = "TypeError"
             /\ el_db' = el_db
             /\ prop_db' = prop_db]_vars

\* C4: add(document, exclude) succeeds whenever every property outside
\* exclude is hashable, even if an excluded one is not; the document is
\* then stored in full under the returned identifier and none of its
\* excluded properties holds that identifier in prop_db.
C4_ExcludedExemptFromHashability ==
    [][\A a \in AddArgs :
          (~HasUnhashableIndexed(a[1], a[2]) /\ AddCall(a[1], a[2], None))
          => /\ raised' = "none"
             /\ ret'.int \in DOMAIN el_db'
             /\ el_db'[ret'.int] = AsDict(a[1])
             /\ \A p \in a[2], v \in Vals :
                   ret'.int \notin IdsAtNext(p, v)]_vars

\* C5: remove(id) of a stored document returns; afterwards id is gone from
\* el_db, size() is one less, id is in no identifier set of prop_db, and
\* the other documents and the index entries of other ids are unchanged.
C5_RemoveStoredDocument ==
    [][\A id_ \in Ids :
          (id_ \in DOMAIN el_db /\ RemoveCall(id_))
          => /\ raised' = "none"
             /\ id_ \notin DOMAIN el_db'
             /\ Cardinality(DOMAIN el_db') = Cardinality(DOMAIN el_db) - 1
             /\ EntriesOfNext(id_) = {}
             /\ \A j \in (DOMAIN el_db) \ {id_} :
                   j \in DOMAIN el_db' /\ el_db'[j] = el_db[j]
             /\ \A j \in Ids \ {id_} : EntriesOfNext(j) = EntriesOf(j)]_vars

\* C6: remove_prop(id, prop) on a stored document that has prop returns;
\* afterwards the document lacks prop, id has left prop_db[prop][v] for the
\* value v it held, nothing empty is kept in prop_db, and all other
\* documents and index entries are unchanged.
C6_RemovePropOfStoredProperty ==
    [][\A id_ \in Ids, prop \in Props :
          (HasProp(id_, prop) /\ RemovePropCall(id_, prop))
          => /\ raised' = "none"
             /\ id_ \in DOMAIN el_db'
             /\ el_db'[id_] = Del(el_db[id_], prop)
             /\ id_ \notin IdsAtNext(prop, el_db[id_][prop])
             /\ \A p \in DOMAIN prop_db' :
                   /\ DOMAIN prop_db'[p] # {}
                   /\ \A v \in DOMAIN prop_db'[p] : prop_db'[p][v] # {}
             /\ \A j \in (DOMAIN el_db) \ {id_} :
                   j \in DOMAIN el_db' /\ el_db'[j] = el_db[j]
             /\ EntriesOfNext(id_) =
                   EntriesOf(id_) \ {<<prop, el_db[id_][prop]>>}
             /\ \A j \in Ids \ {id_} : EntriesOfNext(j) = EntriesOf(j)]_vars

\* the documents of the identifiers of id_iter that are stored, in order
PresentDocs(id_iter) ==
    LET present == SelectSeq(id_iter, LAMBDA i : i \in DOMAIN el_db)
    IN  [k \in 1..Len(present) |-> el_db[present[k]]]

\* C7: access never raises: it returns, in input order, the stored document
\* of every identifier that is present and nothing for an absent one.
C7_AccessSkipsMissing ==
    [][\A id_iter \in IdIters :
          AccessCall(id_iter)
          => /\ raised' = "none"
             /\ ret'.docs = PresentDocs(id_iter)]_vars

\* C8: query(prop, eq, v) returns exactly the identifiers of the stored
\* documents that have prop indexed with value v, and the empty set when
\* prop is not a key of prop_db.
C8_QueryEqExact ==
    [][\A prop \in Props, val \in HashableVals, order \in Orders(Ids) :
          QueryCall(prop, "eq", val, FALSE, order)
          => /\ raised' = "none"
             /\ ret'.ids = { i \in DOMAIN el_db :
                           /\ prop \in DOMAIN el_db[i]
                           /\ <<i, prop>> \notin excluded
                           /\ el_db[i][prop] = val }
             /\ prop \notin DOMAIN prop_db => ret'.ids = {}]_vars

\* C9: query_prop(prop) never raises and returns the union of the
\* identifier sets indexed under prop, the empty set when prop is not a key
\* of prop_db.
C9_QueryPropUnion ==
    [][\A prop \in Props :
          QueryPropCall(prop, FALSE)
          => /\ raised' = "none"
             /\ ret'.ids = UNION { IdsAt(prop, v) : v \in Vals }]_vars

\* C10: remove, remove_prop, set_prop and replace aimed at an identifier
\* that is not in el_db raise the lookup error and change neither el_db nor
\* prop_db; remove_prop of a property the stored document does not have
\* raises the key error and changes neither.  (call' records the method
\* the transition has run and the id_ and prop it was aimed at.)
C10_MissingTargetFailsAtomically ==
    [][ncalls' = ncalls + 1 =>
          /\ ( /\ call'.name \in {"remove", "remove_prop", "set_prop", "replace"}
               /\ call'.id_ \notin DOMAIN el_db )
             => /\ raised' = "LookupError"
                /\ el_db' = el_db
                /\ prop_db' = prop_db
          /\ ( /\ call'.name = "remove_prop"
               /\ call'.id_ \in DOMAIN el_db
               /\ call'.prop \notin DOMAIN el_db[call'.id_] )
             => /\ raised' = "KeyError"
                /\ el_db' = el_db
                /\ prop_db' = prop_db]_vars

\* a targeted mutation has just been refused for an identifier the
\* (non-empty) store does not hold
C10_Witness ==
    /\ call.name \in {"remove", "remove_prop", "set_prop", "replace"}
    /\ call.id_ \notin DOMAIN el_db
    /\ raised = "LookupError"
    /\ el_db # EmptyMap
    /\ prop_db # EmptyMap

\* C11: load is all-or-nothing -- a load that raises (file that cannot be
\* opened, container without "el_db" or without "prop_db") leaves el_db,
\* prop_db and fname as they were; never is one table replaced and the
\* other not.
C11_LoadAllOrNothing ==
    [][\A name \in Files :
          (LoadCall(name) /\ raised' # "none")
          => /\ el_db' = el_db
             /\ prop_db' = prop_db
             /\ fname' = fname]_vars

\* a newly constructed SimpleDB that finds the files of the next state
FreshOnNextDisk ==
    [el_db |-> EmptyMap, prop_db |-> EmptyMap, fname |-> NoFname,
     disk |-> disk', aliased |-> {}, excluded |-> {}, uuid_next |-> uuid_next,
     raised |-> "none", ret |-> NoValue]

\* C12: round trip -- in any reachable state save(destination) returns, and
\* a load of that destination into a fresh SimpleDB then returns with
\* el_db and prop_db equal to those of the saved store.
C12_SaveLoadRoundTrip ==
    [][\A dest \in Files :
          SaveCall(dest)
          => /\ raised' = "none"
             /\ el_db' = el_db
             /\ prop_db' = prop_db
             /\ LET loaded == load(FreshOnNextDisk, dest)
                IN  /\ loaded.raised = "none"
                    /\ loaded.el_db = el_db
                    /\ loaded.prop_db = prop_db]_vars

\* the (property, value) pairs of document el that exclude leaves indexed
IndexedPairs(el, exclude) ==
    { <<el[k][1], el[k][2]>> : k \in { j \in 1..Len(el) : el[j][1] \notin exclude } }

\* C13: replace(id, document, exclude) of a stored id by a valid document
\* returns; afterwards el_db[id] is the new document, the number of
\* documents is unchanged, the index entries holding id are exactly the
\* non-excluded pairs of the new document, and all other documents are
\* unchanged.
C13_ReplaceSwaps ==
    [][\A id_ \in DOMAIN el_db : \A a \in AddArgs :
          (~HasUnhashableIndexed(a[1], a[2]) /\ ReplaceCall(id_, a[1], a[2]))
          => /\ raised' = "none"
             /\ DOMAIN el_db' = DOMAIN el_db
             /\ el_db'[id_] = AsDict(a[1])
             /\ EntriesOfNext(id_) = IndexedPairs(a[1], a[2])
             /\ \A j \in (DOMAIN el_db) \ {id_} : el_db'[j] = el_db[j]]_vars

\* C14: set_prop does not retract -- when set_prop(id, prop, v2) without
\* exclude returns on a document whose prop is indexed at a value v1
\* other than v2, afterwards el_db[id][prop] = v2, id is in
\* prop_db[prop][v2] and still in prop_db[prop][v1], and no index entry
\* other than prop_db[prop][v2] has changed.
C14_SetPropKeepsOldEntry ==
    [][\A id_ \in Ids, prop \in Props, v1 \in HashableVals, v2 \in Vals :
          ( /\ v1 # v2
            /\ HasProp(id_, prop) /\ el_db[id_][prop] = v1
            /\ id_ \in IdsAt(prop, v1)
            /\ SetPropCall(id_, prop, v2, FALSE)
            /\ raised' = "none" )
          => /\ el_db'[id_][prop] = v2
             /\ id_ \in IdsAtNext(prop, v2)
             /\ id_ \in IdsAtNext(prop, v1)
             /\ \A e \in (Props \X Vals) \ {<<prop, v2>>} :
                   IdsAtNext(e[1], e[2]) = IdsAt(e[1], e[2])
             /\ IdsAtNext(prop, v2) = IdsAt(prop, v2) \cup {id_}]_vars

\* set_prop has just overwritten an indexed property: the document holds
\* the new value and its id is indexed under the new and an older value
C14_Witness ==
    /\ call.name = "set_prop"
    /\ raised = "none"
    /\ HasProp(call.id_, call.prop)
    /\ call.id_ \in IdsAt(call.prop, el_db[call.id_][call.prop])
    /\ \E v1 \in HashableVals \ {el_db[call.id_][call.prop]} :
          call.id_ \in IdsAt(call.prop, v1)

\* C15: no dangling identifiers -- in every state reachable by add,
\* remove, replace, set_prop and remove_prop calls, returning or raising,
\* every identifier in an identifier set of prop_db is a key of el_db.
C15_NoDanglingIds ==
    IndexedIds \subseteq DOMAIN el_db

SelfNext ==
    [el_db |-> el_db', prop_db |-> prop_db', fname |-> fname', disk |-> disk',
     aliased |-> aliased', excluded |-> excluded', uuid_next |-> uuid_next',
     raised |-> "none", ret |-> NoValue]

\* C17: the documents access returns are independent of the store --
\* setting, overwriting or deleting a property of a returned document
\* changes neither el_db nor prop_db, and an access made afterwards
\* returns what it would have returned before.
C17_AccessReturnsIndependentCopies ==
    [][\A k \in 1..Len(ret.docs), m \in Mutations :
          ( /\ call.name = "access"
            /\ CallerMutatesReturnedDocCall(k, m) )
          => /\ el_db' = el_db
             /\ prop_db' = prop_db
             /\ \A id_iter \in IdIters :
                   access(SelfNext, id_iter) = access(Self, id_iter)]_vars

\* the caller has changed a document that access returned for a stored,
\* indexed identifier: the returned document now differs from every
\* stored one
C17_Witness ==
    /\ call.name = "caller changes returned dict"
    /\ ret.kind = "list"
    /\ Len(ret.docs) > 0
    /\ el_db # EmptyMap
    /\ prop_db # EmptyMap
    /\ \A i \in DOMAIN el_db : el_db[i] # ret.docs[1]

\* C18: read-only operations have no side effects -- size, access, query
\* and query_prop, with the access flag set or not, returning or raising,
\* leave el_db and prop_db unchanged; and the set a query returns is a new
\* object: changing it changes no identifier set of prop_db.  (call' names
\* the method or caller step that the transition has run to completion.)
C18_ReadsLeaveStoreUnchanged ==
    [][ncalls' = ncalls + 1 =>
          /\ call'.name \in {"size", "access", "query", "query_prop"}
                => /\ el_db' = el_db
                   /\ prop_db' = prop_db
          /\ (call.name \in {"query", "query_prop"} /\ ret.kind = "set"
                /\ call'.name = "caller changes returned set")
                => /\ el_db' = el_db
                   /\ prop_db' = prop_db]_vars

\* the caller has changed the non-empty set a query returned for an
\* indexed property, so that it now differs from every identifier set
\* indexed under that property
C18_Witness ==
    /\ call.name = "caller changes returned set"
    /\ ret.kind = "set"
    /\ call.prop \in DOMAIN prop_db
    /\ \A v \in DOMAIN prop_db[call.prop] : prop_db[call.prop][v] # ret.ids
    /\ \E v \in DOMAIN prop_db[call.prop] :
          prop_db[call.prop][v] \cap ret.ids # {}

\* C19: add does not alias the caller's document -- after id = add(doc)
\* has returned, a change the caller makes to doc (setting, overwriting or
\* deleting a property) does not change el_db[id], nor anything else in
\* el_db or prop_db.
C19_AddKeepsItsOwnDocument ==
    [][\A id_ \in Ids, m \in Mutations :
          CallerMutatesPassedCall(id_, m)
          => /\ el_db' = el_db
             /\ prop_db' = prop_db]_vars

\* C20: an add without a caller-supplied identifier that returns hands
\* back an identifier that was not a key of el_db, makes the store one
\* document larger, and leaves every document stored before and every
\* index membership of the other identifiers as it was.  (call' records
\* the method the transition has run and the id_ argument it was given.)
C20_AddIsFreshAndFramed ==
    [][( /\ ncalls' = ncalls + 1
         /\ call'.name = "add"
         /\ call'.id_ = None
         /\ raised' = "none" )
          => /\ ret'.int \notin DOMAIN el_db
             /\ ret'.int \in DOMAIN el_db'
             /\ Cardinality(DOMAIN el_db') = Cardinality(DOMAIN el_db) + 1
             /\ \A j \in DOMAIN el_db :
                   j \in DOMAIN el_db' /\ el_db'[j] = el_db[j]
             /\ \A j \in Ids \ {ret'.int} :
                   EntriesOfNext(j) = EntriesOf(j)]_vars

\* add has just returned a generated identifier for an indexed document
\* while another indexed document was already stored
C20_Witness ==
    /\ call.name = "add"
    /\ call.id_ = None
    /\ raised = "none"
    /\ ret.int \in DOMAIN el_db
    /\ EntriesOf(ret.int) # {}
    /\ \E j \in (DOMAIN el_db) \ {ret.int} : EntriesOf(j) # {}

====
